---- MODULE Spec2Model ----
(***************************************************************************)
(* Model of src/app.py: the embedding index builder                        *)
(* (generate_and_store_embeddings), the nearest-item resolver (rag_search) *)
(* and the request handlers that acquire database connections.             *)
(*                                                                         *)
(* The relational tables are modelled by their committed contents.  A      *)
(* statement sequence that ends in conn.commit() is one step at the commit *)
(* (READ COMMITTED: nothing of it is visible to others before).            *)
(***************************************************************************)
EXTENDS Integers, Sequences, FiniteSets, TLC

VARIABLES
  items,            \* table items: items[i] is the description of item id i
  has_table,        \* whether relation item_embeddings exists
  item_embeddings,  \* committed rows of item_embeddings
  pc,               \* per invocation of the builder: position in the function
  offset,           \* per invocation: local variable offset
  fetched,          \* per invocation: local variable items (the fetched batch)
  embeddings,       \* per invocation: local variable embeddings
  in_txn,           \* per invocation: its connection has an open transaction
                    \* that has read item_embeddings
  run,              \* per invocation: what the running invocation did so far
  hist,             \* finished invocations of the builder, in order of finishing
  open_conns,       \* database connections that are open
  resp,             \* the last HTTP response sent, with what produced it
  phone_numbers,    \* committed rows of table phone_numbers
  outfits,          \* committed rows of table outfits
  referral_codes,   \* committed rows of table referral_codes
  referrals,        \* committed rows of table referrals
  req,              \* per account request in progress: its position and locals
  activated         \* phone numbers, as written in the request, for which
                    \* /api/referral/validate answered "Account successfully
                    \* activated"

vars == <<items, has_table, item_embeddings, pc, offset, fetched, embeddings,
          in_txn, run, hist, open_conns, resp, phone_numbers, outfits,
          referral_codes, referrals, req, activated>>

acctVars == <<phone_numbers, outfits, referral_codes, referrals, req, activated>>
acctTables == <<phone_numbers, outfits, referral_codes, referrals>>
embVars == <<items, has_table, item_embeddings, pc, offset, fetched, embeddings,
             in_txn, run, hist>>

builderVars == <<pc, offset, fetched, embeddings, in_txn, run, hist>>
dbVars == <<items, has_table, item_embeddings>>

----------------------------------------------------------------------------
(* Bounds of the model *)

MaxItems == 4        \* largest catalog of the builder specification
MaxApiItems == 2     \* largest catalog of the request specification
MaxConcItems == 3    \* largest catalog of the concurrent specification
MaxRuns == 2         \* invocations of the builder in one behaviour
MaxApiRuns == 1      \* the same, in the request specification
MaxFailures == 2     \* failing calls of the embedding service by the builder
MaxConns == 2        \* connections the database server accepts
MaxReferrals == 2    \* referrals on record when a validation is admitted
MaxOutfits == 3      \* outfits on record

(* batch_size = 100 in the source; the model keeps the code and scales the
   number so that catalogs of MaxItems items span several batches. *)
batch_size == 2

Procs == {1, 2}      \* invocations of the builder that may be in progress

Clients == {1, 2}    \* account requests that may be in progress

\* an account request slot with no request in it
Idle == [op |-> "idle"]

----------------------------------------------------------------------------
(* Values *)

None == "None"       \* Python None / SQL NULL

\* descriptions a catalog item may carry
Descriptions == {None, "", "red wool sweater", "blue denim jeans"}

\* item_description values of a rag_search request (None: key missing)
Queries == {None, "", "warm red sweater", "blue denim jeans"}

\* Python truthiness of a str-or-None value: `if item[1]`, `if not item_description`
Truthy(s) == s # None /\ s # ""

\* co.embed(texts=[t], model=EMBED_MODEL).embeddings[0]: the service is
\* deterministic; vectors are 2-dimensional stand-ins for the 1024 dimensions.
Embed(t) ==
  CASE t = "red wool sweater" -> <<1, 0>>
    [] t = "blue denim jeans" -> <<1, 3>>
    [] t = "warm red sweater" -> <<2, 1>>
    [] OTHER -> <<1, 1>>

RECURSIVE EmbedAll(_)
\* co.embed(texts=descriptions).embeddings: one vector per text, in order
EmbedAll(texts) ==
  IF texts = <<>> THEN <<>>
  ELSE <<Embed(Head(texts))>> \o EmbedAll(Tail(texts))

Catalogs(n) == UNION {[1..k -> Descriptions] : k \in 0..n}

----------------------------------------------------------------------------
(* SQL of the builder *)

Min(a, b) == IF a < b THEN a ELSE b

EmbeddedIds(rows) == {r.item_id : r \in rows}

\* SELECT id, description FROM items WHERE id NOT IN (SELECT item_id FROM
\* item_embeddings) ORDER BY id LIMIT lim OFFSET off
SelectBatch(its, rows, lim, off) ==
  LET all == [i \in 1..Len(its) |-> <<i, its[i]>>]
      IsNew(row) == row[1] \notin EmbeddedIds(rows)
      new == SelectSeq(all, IsNew)
  IN SubSeq(new, off + 1, Min(Len(new), off + lim))

\* descriptions = [item[1] for item in items if item[1]]
DescriptionsOf(batch) ==
  LET HasText(row) == Truthy(row[2])
      kept == SelectSeq(batch, HasText)
  IN [i \in 1..Len(kept) |-> kept[i][2]]

\* ids of the items of a batch whose description is sent to the service
SentIds(batch) == {batch[i][1] : i \in {j \in 1..Len(batch) : Truthy(batch[j][2])}}

\* INSERT INTO item_embeddings (item_id, embedding) VALUES (..)
\* ON CONFLICT (item_id) DO UPDATE SET embedding = EXCLUDED.embedding
Upsert(rows, id, vec) ==
  {r \in rows : r.item_id # id} \cup {[item_id |-> id, embedding |-> vec]}

RECURSIVE StoreFrom(_, _, _, _)
StoreFrom(rows, batch, embs, i) ==
  IF i > Min(Len(batch), Len(embs)) THEN rows
  ELSE StoreFrom(Upsert(rows, batch[i][1], embs[i]), batch, embs, i + 1)

\* for (item_id, _), embedding in zip(items, embeddings): upsert
StoreBatch(rows, batch, embs) == StoreFrom(rows, batch, embs, 1)

RECURSIVE BatchLoop(_, _, _)
\* lines 386-430 run alone with every embedding call succeeding: the table
\* the while loop leaves, started at offset off on table rows
BatchLoop(its, rows, off) ==
  LET b == SelectBatch(its, rows, batch_size, off) IN
    IF b = <<>> THEN rows
    ELSE IF DescriptionsOf(b) = <<>> THEN BatchLoop(its, rows, off + batch_size)
    ELSE BatchLoop(its, StoreBatch(rows, b, EmbedAll(DescriptionsOf(b))),
                   off + batch_size)

\* variant: no DROP TABLE, only CREATE TABLE IF NOT EXISTS
RecreateTableKeepsRows(rows) == rows

\* DROP TABLE IF EXISTS item_embeddings; CREATE TABLE IF NOT EXISTS
\* item_embeddings (...): the rows the table holds afterwards
RecreateTable(rows) == {}

----------------------------------------------------------------------------
(* Initial states *)

\* resp: the handler, the status sent, the item_id of the body; then what
\* the handler did: its item_description, the fault the environment raised
\* ("none", "embed_error", "connect_error", "query_error"), the co.embed
\* calls and connections it made, and the table its query ran on
NoResp == [op |-> "none", status |-> 0, item_id |-> 0, query |-> None,
           fault |-> "none", embed_calls |-> 0, connections |-> 0,
           had_table |-> FALSE, rows |-> {}]

NoRun == [before |-> {}, log |-> <<>>]

InitWith(n) ==
  /\ items \in Catalogs(n)
  /\ has_table = FALSE
  /\ item_embeddings = {}
  /\ pc = [p \in Procs |-> "idle"]
  /\ offset = [p \in Procs |-> 0]
  /\ fetched = [p \in Procs |-> <<>>]
  /\ embeddings = [p \in Procs |-> <<>>]
  /\ in_txn = [p \in Procs |-> FALSE]
  /\ run = [p \in Procs |-> NoRun]
  /\ hist = <<>>
  /\ open_conns = 0
  /\ resp = NoResp
  /\ phone_numbers = {}
  /\ outfits = {}
  /\ referral_codes = {}
  /\ referrals = {}
  /\ req = [c \in Clients |-> Idle]
  /\ activated = {}

Init == InitWith(MaxItems)

----------------------------------------------------------------------------
(* generate_and_store_embeddings, invocation p *)

Started == Len(hist) + Cardinality({p \in Procs : pc[p] # "idle"})

\* calls of the embedding service by the builder that failed so far
Failures ==
  Cardinality({nk \in (1..Len(hist)) \X (1..(MaxItems + 1)) :
                 /\ nk[2] <= Len(hist[nk[1]].log)
                 /\ hist[nk[1]].log[nk[2]].outcome = "failed"})
  + Cardinality({pk \in Procs \X (1..(MaxItems + 1)) :
                 /\ pk[2] <= Len(run[pk[1]].log)
                 /\ run[pk[1]].log[pk[2]].outcome = "failed"})

\* what one resolved batch adds to the log of the running invocation
Logged(p, outcome, rows) ==
  [run EXCEPT ![p].log = Append(@, [offset |-> offset[p],
                                    ids |-> [i \in 1..Len(fetched[p]) |-> fetched[p][i][1]],
                                    sent |-> SentIds(fetched[p]),
                                    outcome |-> outcome,
                                    rows |-> rows])]

\* the invocation ends: `how` is "returned" or "raised"
Finished(p, how, lg, after) ==
  hist' = Append(hist, [proc |-> p, exit |-> how, before |-> run[p].before,
                        log |-> lg, after |-> after])

\* leaving `with get_db_connection() as conn`: psycopg2 ends the transaction
\* and does not close the connection; it is closed only if the interpreter
\* finalises the unreferenced object.
LeaveWith ==
  \E finalised \in BOOLEAN :
    open_conns' = IF finalised THEN open_conns - 1 ELSE open_conns

\* lines 355-356: get_db_connection(); a failure is logged and re-raised
BuilderConnect(p) ==
  /\ UNCHANGED acctVars
  /\ pc[p] = "idle"
  /\ Started < MaxRuns
  /\ \E connected \in BOOLEAN :
       IF connected
       THEN /\ open_conns < MaxConns
            /\ open_conns' = open_conns + 1
            /\ pc' = [pc EXCEPT ![p] = "setup"]
            /\ run' = [run EXCEPT ![p] = [before |-> item_embeddings, log |-> <<>>]]
            /\ UNCHANGED hist
       ELSE /\ Finished(p, "raised", <<>>, item_embeddings)
            /\ UNCHANGED <<open_conns, pc, run>>
  /\ UNCHANGED <<dbVars, offset, fetched, embeddings, in_txn, resp>>

\* lines 358-384: CREATE EXTENSION; DROP TABLE IF EXISTS; CREATE TABLE; commit;
\* SELECT COUNT(*) FROM items; return if 0.  DROP TABLE takes an ACCESS
\* EXCLUSIVE lock, which waits for every transaction that has read the table.
BuilderSetup(p) ==
  /\ UNCHANGED acctVars
  /\ pc[p] = "setup"
  /\ \A q \in Procs \ {p} : ~in_txn[q]
  /\ has_table' = TRUE
  /\ item_embeddings' = RecreateTable(item_embeddings)
  /\ IF Len(items) = 0
     THEN /\ pc' = [pc EXCEPT ![p] = "idle"]
          /\ Finished(p, "returned", run[p].log, item_embeddings')
          /\ run' = [run EXCEPT ![p] = NoRun]
          /\ LeaveWith
     ELSE /\ pc' = [pc EXCEPT ![p] = "fetch"]
          /\ UNCHANGED <<hist, run, open_conns>>
  /\ offset' = [offset EXCEPT ![p] = 0]
  /\ UNCHANGED <<items, fetched, embeddings, in_txn, resp>>

\* variant: the skipped batch goes on (continue) without advancing offset
SkipOffsetForgotten(off) == off

\* line 403: offset += batch_size before `continue`
SkipOffset(off) == off + batch_size

\* lines 386-404: fetch the batch at offset; break when it is empty; skip it
\* (offset += batch_size; continue) when no description is usable
BuilderFetch(p) ==
  /\ UNCHANGED acctVars
  /\ pc[p] = "fetch"
  /\ LET b == SelectBatch(items, item_embeddings, batch_size, offset[p]) IN
       /\ fetched' = [fetched EXCEPT ![p] = b]
       /\ IF b = <<>>
          THEN /\ pc' = [pc EXCEPT ![p] = "idle"]
               /\ Finished(p, "returned",
                           Append(run[p].log, [offset |-> offset[p], ids |-> <<>>,
                                               sent |-> {}, outcome |-> "empty",
                                               rows |-> item_embeddings]),
                           item_embeddings)
               /\ run' = [run EXCEPT ![p] = NoRun]
               /\ in_txn' = [in_txn EXCEPT ![p] = FALSE]
               /\ LeaveWith
               /\ UNCHANGED offset
          ELSE IF DescriptionsOf(b) = <<>>
          THEN /\ offset' = [offset EXCEPT ![p] = SkipOffset(@)]
               /\ run' = [run EXCEPT ![p].log =
                            Append(@, [offset |-> offset[p],
                                       ids |-> [i \in 1..Len(b) |-> b[i][1]],
                                       sent |-> {}, outcome |-> "skipped",
                                       rows |-> item_embeddings])]
               /\ in_txn' = [in_txn EXCEPT ![p] = TRUE]
               /\ UNCHANGED <<pc, hist, open_conns>>
          ELSE /\ pc' = [pc EXCEPT ![p] = "embed"]
               /\ in_txn' = [in_txn EXCEPT ![p] = TRUE]
               /\ UNCHANGED <<offset, run, hist, open_conns>>
  /\ UNCHANGED <<dbVars, embeddings, resp>>

\* variant: the except clause of the batch re-raises instead of going on
BuilderEmbedReraises(p) ==
  /\ UNCHANGED acctVars
  /\ pc[p] = "embed"
  /\ \E answered \in BOOLEAN :
       IF answered
       THEN /\ embeddings' = [embeddings EXCEPT ![p] = EmbedAll(DescriptionsOf(fetched[p]))]
            /\ pc' = [pc EXCEPT ![p] = "store"]
            /\ UNCHANGED <<offset, in_txn, run, hist, open_conns>>
       ELSE /\ Failures < MaxFailures
            /\ pc' = [pc EXCEPT ![p] = "idle"]
            /\ in_txn' = [in_txn EXCEPT ![p] = FALSE]
            /\ Finished(p, "raised", Logged(p, "failed", item_embeddings)[p].log,
                        item_embeddings)
            /\ run' = [run EXCEPT ![p] = NoRun]
            /\ LeaveWith
            /\ UNCHANGED <<embeddings, offset>>
  /\ UNCHANGED <<dbVars, fetched, resp>>

\* lines 406-411 and 426-430: co.embed(texts=descriptions); when it raises,
\* log, conn.rollback(), offset += batch_size and go on with the loop
BuilderEmbed(p) ==
  /\ UNCHANGED acctVars
  /\ pc[p] = "embed"
  /\ \E answered \in BOOLEAN :
       IF answered
       THEN /\ embeddings' = [embeddings EXCEPT ![p] = EmbedAll(DescriptionsOf(fetched[p]))]
            /\ pc' = [pc EXCEPT ![p] = "store"]
            /\ UNCHANGED <<offset, in_txn, run>>
       ELSE /\ Failures < MaxFailures
            /\ pc' = [pc EXCEPT ![p] = "fetch"]
            /\ offset' = [offset EXCEPT ![p] = @ + batch_size]
            /\ in_txn' = [in_txn EXCEPT ![p] = FALSE]
            /\ run' = Logged(p, "failed", item_embeddings)
            /\ UNCHANGED embeddings
  /\ UNCHANGED <<dbVars, fetched, hist, open_conns, resp>>

\* lines 413-424 and 430: upsert the zipped pairs, conn.commit(),
\* offset += batch_size
BuilderStore(p) ==
  /\ UNCHANGED acctVars
  /\ pc[p] = "store"
  /\ item_embeddings' = StoreBatch(item_embeddings, fetched[p], embeddings[p])
  /\ pc' = [pc EXCEPT ![p] = "fetch"]
  /\ offset' = [offset EXCEPT ![p] = @ + batch_size]
  /\ in_txn' = [in_txn EXCEPT ![p] = FALSE]
  /\ run' = Logged(p, "stored", item_embeddings')
  /\ UNCHANGED <<items, has_table, fetched, embeddings, hist, open_conns, resp>>

generate_and_store_embeddings(p) ==
  \/ BuilderConnect(p)
  \/ BuilderSetup(p)
  \/ BuilderFetch(p)
  \/ BuilderEmbed(p)
  \/ BuilderStore(p)

----------------------------------------------------------------------------
(* rag_search *)

Dot(u, v) == u[1] * v[1] + u[2] * v[2]

\* cosine distance (pgvector <=>) of u to q is at most that of v to q:
\* 1 - q.u/(|q||u|) <= 1 - q.v/(|q||v|), compared without square roots
CosineLeq(q, u, v) ==
  LET a == Dot(q, u)
      b == Dot(q, v)
  IN IF a >= 0 /\ b <= 0 THEN TRUE
     ELSE IF a < 0 /\ b >= 0 THEN FALSE
     ELSE IF a >= 0 THEN a * a * Dot(v, v) >= b * b * Dot(u, u)
     ELSE a * a * Dot(v, v) <= b * b * Dot(u, u)

\* variant: ORDER BY distance DESC
NearestRowsDescending(rows, q) ==
  {r \in rows : \A s \in rows : CosineLeq(q, s.embedding, r.embedding)}

\* SELECT item_id, embedding <=> q AS distance FROM item_embeddings
\* ORDER BY distance ASC LIMIT 1: the rows fetchone() may return
NearestRows(rows, q) ==
  {r \in rows : \A s \in rows : CosineLeq(q, r.embedding, s.embedding)}

Response(op, status) == [NoResp EXCEPT !.op = op, !.status = status]

\* get_db_connection() inside a handler: the connection is opened and the
\* handler's `with` block is left again within the request
ConnectAndLeave ==
  /\ open_conns < MaxConns
  /\ \E finalised \in BOOLEAN :
       open_conns' = IF finalised THEN open_conns ELSE open_conns + 1

\* variant: the empty-description check comes after the embedding call
RagSearchBadRequestAfterEmbed(q) ==
  [Response("rag_search", 400) EXCEPT !.query = q, !.embed_calls = 1]

\* lines 600-602: the response for an empty or missing item_description
RagSearchBadRequest(q) == [Response("rag_search", 400) EXCEPT !.query = q]

\* lines 597-623, under handle_errors (lines 91-106)
rag_search(q) ==
  /\ UNCHANGED acctVars
  /\ q \in Queries
  /\ \E outcome \in {"none", "embed_error", "connect_error", "query_error"} :
       LET base == [Response("rag_search", 500) EXCEPT !.query = q,
                                                       !.fault = outcome] IN
       IF ~Truthy(q)
       THEN /\ outcome = "none"
            /\ resp' = RagSearchBadRequest(q)
            /\ UNCHANGED open_conns
       ELSE IF outcome = "embed_error"
       THEN /\ resp' = [base EXCEPT !.embed_calls = 1]
            /\ UNCHANGED open_conns
       ELSE IF outcome = "connect_error"
       THEN /\ resp' = [base EXCEPT !.embed_calls = 1]
            /\ UNCHANGED open_conns
       ELSE /\ ConnectAndLeave
            /\ LET seen == [base EXCEPT !.embed_calls = 1, !.connections = 1,
                                        !.had_table = has_table,
                                        !.rows = item_embeddings]
               IN IF outcome = "query_error" \/ ~has_table
                  THEN resp' = seen
                  ELSE IF item_embeddings = {}
                  THEN resp' = [seen EXCEPT !.status = 404]
                  ELSE \E r \in NearestRows(item_embeddings, Embed(q)) :
                         resp' = [seen EXCEPT !.status = 200, !.item_id = r.item_id]
  /\ UNCHANGED <<dbVars, builderVars>>

----------------------------------------------------------------------------
(* api_links and api_items *)

ItemIdArgs == {None, "1"}
OutfitIdArgs == {None, "abc", "1", "2"}

\* int(outfit_id): the value, or 0 for a ValueError
ParseInt(s) == CASE s = "1" -> 1 [] s = "2" -> 2 [] OTHER -> 0

\* every catalog item of the model belongs to outfit 1
OutfitOf(i) == 1

\* lines 625-665, under handle_errors
api_links(item_id) ==
  /\ UNCHANGED acctVars
  /\ item_id \in ItemIdArgs
  /\ \E outcome \in {"none", "connect_error", "query_error"} :
       IF ~Truthy(item_id)
       THEN /\ outcome = "none"
            /\ resp' = Response("api_links", 400)
            /\ UNCHANGED open_conns
       ELSE IF outcome = "connect_error"
       THEN /\ resp' = [Response("api_links", 500) EXCEPT !.fault = outcome]
            /\ UNCHANGED open_conns
       ELSE /\ ConnectAndLeave
            /\ resp' = [Response("api_links", IF outcome = "none" THEN 200 ELSE 500)
                          EXCEPT !.connections = 1, !.fault = outcome]
  /\ UNCHANGED <<dbVars, builderVars>>

\* lines 237-295: the items of an outfit, or None after a failing query; the
\* connection is closed in the finally clause.  When psycopg2.connect itself
\* raises, the finally clause reads the unbound cursor and raises too.
get_items_from_db(outfit, outcome) ==
  IF outcome = "none"
  THEN [raised |-> FALSE, connections |-> 1, is_none |-> FALSE,
        value |-> {i \in 1..Len(items) : OutfitOf(i) = outfit}]
  ELSE IF outcome = "query_error"
  THEN [raised |-> FALSE, connections |-> 1, is_none |-> TRUE, value |-> {}]
  ELSE [raised |-> TRUE, connections |-> 0, is_none |-> TRUE, value |-> {}]

\* lines 667-695, under handle_errors
api_items(outfit_id) ==
  /\ UNCHANGED acctVars
  /\ outfit_id \in OutfitIdArgs
  /\ \E outcome \in {"none", "connect_error", "query_error"} :
       IF ~Truthy(outfit_id) \/ ParseInt(outfit_id) = 0
       THEN /\ outcome = "none"
            /\ resp' = Response("api_items", 400)
       ELSE LET got == get_items_from_db(ParseInt(outfit_id), outcome) IN
            /\ got.connections = 1 => open_conns < MaxConns
            /\ resp' = [Response("api_items",
                                 IF got.raised \/ got.is_none THEN 500
                                 ELSE IF got.value = {} THEN 404 ELSE 200)
                          EXCEPT !.connections = got.connections,
                                 !.fault = outcome]
  /\ UNCHANGED <<open_conns, dbVars, builderVars>>

----------------------------------------------------------------------------
(* Strings of the account handlers: a str is the sequence of its characters *)

Whitespace == {" ", "\t"}

RECURSIVE LStripChars(_, _)
\* str.lstrip(chars)
LStripChars(s, chars) ==
  IF s # <<>> /\ Head(s) \in chars THEN LStripChars(Tail(s), chars) ELSE s

RECURSIVE RStripChars(_, _)
\* str.rstrip(chars)
RStripChars(s, chars) ==
  IF s # <<>> /\ s[Len(s)] \in chars
  THEN RStripChars(SubSeq(s, 1, Len(s) - 1), chars)
  ELSE s

\* str.strip()
Strip(s) == RStripChars(LStripChars(s, Whitespace), Whitespace)

\* str.replace(ch, "")
Without(s, ch) == LET Keep(c) == c # ch IN SelectSeq(s, Keep)

\* str.startswith(prefix)
StartsWith(s, prefix) ==
  Len(s) >= Len(prefix) /\ SubSeq(s, 1, Len(prefix)) = prefix

\* lines 194-201
format_phone_number(phone_number) ==
  LET t == Without(Without(Without(Without(Strip(phone_number), "-"), "("), ")"), " ")
  IN IF StartsWith(t, <<"+", "1">>) THEN t ELSE <<"+", "1">> \o t

\* instagram_username.lstrip('@')
StripAt(name) == LStripChars(name, {"@"})

\* SQL NULL in the column instagram_username
NullName == <<"None">>

----------------------------------------------------------------------------
(* Account tables *)

PhoneRow(id, phone, name, act) ==
  [id |-> id, phone_number |-> phone, instagram_username |-> name,
   is_activated |-> act]

\* SELECT ... FROM phone_numbers WHERE phone_number = %s
RowsOfPhone(phone) == {r \in phone_numbers : r.phone_number = phone}

\* psycopg2.connect(DATABASE_URL) in a data-access function; the finally
\* clause closes the connection again
Connected(c, r) ==
  /\ open_conns < MaxConns
  /\ open_conns' = open_conns + 1
  /\ req' = [req EXCEPT ![c] = r]

\* return from a data-access function: cursor.close(); conn.close()
Closed(c) ==
  /\ open_conns' = open_conns - 1
  /\ req' = [req EXCEPT ![c] = Idle]

Reply(op, c, status, message) ==
  [op |-> op, client |-> c, status |-> status, message |-> message]

----------------------------------------------------------------------------
(* /api/instagram/link and /api/instagram/unlink *)

\* lines 897-915 and 145-147: the route checks its arguments, and
\* link_instagram_to_phone connects; when connect raises, the except clause
\* reads the unbound conn and handle_errors answers 500
link_instagram(c, phone_number, instagram_username) ==
  /\ req[c] = Idle
  /\ IF phone_number = <<>> \/ instagram_username = <<>>
     THEN /\ resp' = Reply("link_instagram", c, 400, "required")
          /\ UNCHANGED <<req, open_conns>>
     ELSE \E connected \in BOOLEAN :
            IF connected
            THEN /\ Connected(c, [op |-> "link", pc |-> "find_phone",
                                  phone |-> format_phone_number(phone_number),
                                  name |-> StripAt(instagram_username)])
                 /\ UNCHANGED resp
            ELSE /\ resp' = Reply("link_instagram", c, 500, "unexpected")
                 /\ UNCHANGED <<req, open_conns>>
  /\ UNCHANGED <<embVars, acctTables, activated>>

\* lines 154-161: SELECT id FROM phone_numbers WHERE phone_number = %s
LinkFindPhone(c) ==
  /\ req[c].op = "link" /\ req[c].pc = "find_phone"
  /\ IF RowsOfPhone(req[c].phone) = {}
     THEN /\ Closed(c)
          /\ resp' = Reply("link_instagram", c, 400, "Phone number not found")
     ELSE /\ req' = [req EXCEPT ![c].pc = "check_taken"]
          /\ UNCHANGED <<resp, open_conns>>
  /\ UNCHANGED <<embVars, acctTables, activated>>

\* lines 163-171: SELECT phone_number FROM phone_numbers
\* WHERE instagram_username = %s AND phone_number != %s
LinkCheckTaken(c) ==
  /\ req[c].op = "link" /\ req[c].pc = "check_taken"
  /\ IF \E r \in phone_numbers : /\ r.instagram_username = req[c].name
                                 /\ r.phone_number # req[c].phone
     THEN /\ Closed(c)
          /\ resp' = Reply("link_instagram", c, 400,
                           "Instagram username already linked to another account")
     ELSE /\ req' = [req EXCEPT ![c].pc = "update"]
          /\ UNCHANGED <<resp, open_conns>>
  /\ UNCHANGED <<embVars, acctTables, activated>>

\* UPDATE phone_numbers SET instagram_username = name WHERE phone_number = phone
SetUsername(rows, phone, name) ==
  {IF r.phone_number = phone THEN [r EXCEPT !.instagram_username = name] ELSE r :
     r \in rows}

\* two rows of different phone numbers carry the same username
UsernameShared(rows) ==
  \E r, t \in rows : /\ r.instagram_username = t.instagram_username
                     /\ r.instagram_username # NullName
                     /\ r.phone_number # t.phone_number

\* lines 173-182 and 184-187: UPDATE ... SET instagram_username; commit.
\* The schema of phone_numbers is declared outside this file: if it declares
\* instagram_username UNIQUE, an update that shares a username raises, is
\* rolled back and answered 400.
LinkUpdate(c) ==
  /\ req[c].op = "link" /\ req[c].pc = "update"
  /\ LET new == SetUsername(phone_numbers, req[c].phone, req[c].name) IN
       \E unique_column \in BOOLEAN :
         IF unique_column /\ UsernameShared(new)
         THEN /\ resp' = Reply("link_instagram", c, 400, "IntegrityError")
              /\ UNCHANGED phone_numbers
         ELSE /\ unique_column = FALSE \/ ~UsernameShared(new)
              /\ phone_numbers' = new
              /\ resp' = Reply("link_instagram", c, 200, "linked")
  /\ Closed(c)
  /\ UNCHANGED <<embVars, outfits, referral_codes, referrals, activated>>

\* lines 918-935 and 859-861
unlink_instagram_route(c, phone_number) ==
  /\ req[c] = Idle
  /\ IF phone_number = <<>>
     THEN /\ resp' = Reply("unlink_instagram", c, 400, "required")
          /\ UNCHANGED <<req, open_conns>>
     ELSE \E connected \in BOOLEAN :
            IF connected
            THEN /\ Connected(c, [op |-> "unlink", pc |-> "find_phone",
                                  phone |-> format_phone_number(phone_number)])
                 /\ UNCHANGED resp
            ELSE /\ resp' = Reply("unlink_instagram", c, 500, "unexpected")
                 /\ UNCHANGED <<req, open_conns>>
  /\ UNCHANGED <<embVars, acctTables, activated>>

\* lines 866-873
UnlinkFindPhone(c) ==
  /\ req[c].op = "unlink" /\ req[c].pc = "find_phone"
  /\ IF RowsOfPhone(req[c].phone) = {}
     THEN /\ Closed(c)
          /\ resp' = Reply("unlink_instagram", c, 400, "Phone number not found")
     ELSE /\ req' = [req EXCEPT ![c].pc = "update"]
          /\ UNCHANGED <<resp, open_conns>>
  /\ UNCHANGED <<embVars, acctTables, activated>>

\* lines 875-884: UPDATE phone_numbers SET instagram_username = NULL; commit
UnlinkUpdate(c) ==
  /\ req[c].op = "unlink" /\ req[c].pc = "update"
  /\ phone_numbers' = SetUsername(phone_numbers, req[c].phone, NullName)
  /\ resp' = Reply("unlink_instagram", c, 200, "unlinked")
  /\ Closed(c)
  /\ UNCHANGED <<embVars, outfits, referral_codes, referrals, activated>>

----------------------------------------------------------------------------
(* /api/referral/validate and /api/user/check_activation *)

\* next value of a table's id sequence
NextId(rows) == Cardinality(rows) + 1

\* Query.first(): some row of the result, None when there is none
ReferralCodesOf(code) == {rc \in referral_codes : rc.code = code}

ReferralReply(c, status, message, phone, is_activated) ==
  [op |-> "validate_referral", client |-> c, status |-> status,
   message |-> message, phone |-> phone,
   is_activated |-> is_activated, needs_referral |-> ~is_activated]

\* lines 531-553: argument check, then ReferralCode.query.filter_by(code).first()
\* loads the code's row, used_count included, into the request's session
validate_referral(c, code, new_user_phone) ==
  /\ req[c] = Idle
  /\ Cardinality(referrals) < MaxReferrals
  /\ IF ~Truthy(code) \/ new_user_phone = <<>>
     THEN /\ resp' = ReferralReply(c, 400, "Code and phone number required",
                                   new_user_phone, FALSE)
          /\ UNCHANGED req
     ELSE IF ReferralCodesOf(code) = {}
          THEN /\ resp' = ReferralReply(c, 404, "Invalid referral code",
                                        new_user_phone, FALSE)
               /\ UNCHANGED req
          ELSE \E referral_code \in ReferralCodesOf(code) :
                 /\ req' = [req EXCEPT ![c] =
                      [op |-> "validate", pc |-> "find_user", code |-> code,
                       phone |-> new_user_phone,
                       code_id |-> referral_code.id,
                       referrer_id |-> referral_code.phone_id,
                       used_count |-> referral_code.used_count,
                       user_id |-> 0]]
                 /\ UNCHANGED resp
  /\ UNCHANGED <<embVars, open_conns, acctTables, activated>>

\* lines 555-562: the user is looked up under the phone number as the request
\* wrote it; an activated user is answered at once
ValidateFindUser(c) ==
  /\ req[c].op = "validate" /\ req[c].pc = "find_user"
  /\ LET found == RowsOfPhone(req[c].phone) IN
       IF found = {}
       THEN /\ req' = [req EXCEPT ![c].pc = "insert_user"]
            /\ UNCHANGED resp
       ELSE \E new_user \in found :
              IF new_user.is_activated
              THEN /\ resp' = ReferralReply(c, 200, "User already activated",
                                            req[c].phone, TRUE)
                   /\ req' = [req EXCEPT ![c] = Idle]
              ELSE /\ req' = [req EXCEPT ![c].pc = "commit",
                                         ![c].user_id = new_user.id]
                   /\ UNCHANGED resp
  /\ UNCHANGED <<embVars, open_conns, acctTables, activated>>

\* lines 564-567 and 587-595: a missing user is inserted and committed, which
\* expires the objects of the session.  The table is declared outside this
\* file: if it declares phone_number UNIQUE, the insert of a second row for a
\* number raises, is rolled back and answered 500.
ValidateInsertUser(c) ==
  /\ req[c].op = "validate" /\ req[c].pc = "insert_user"
  /\ \E unique_column \in BOOLEAN :
       IF unique_column /\ RowsOfPhone(req[c].phone) # {}
       THEN /\ resp' = ReferralReply(c, 500, "Server error", req[c].phone, FALSE)
            /\ req' = [req EXCEPT ![c] = Idle]
            /\ UNCHANGED phone_numbers
       ELSE /\ unique_column = FALSE \/ RowsOfPhone(req[c].phone) = {}
            /\ phone_numbers' = phone_numbers \cup
                 {PhoneRow(NextId(phone_numbers), req[c].phone, NullName, FALSE)}
            /\ req' = [req EXCEPT ![c].pc = "refresh",
                                  ![c].user_id = NextId(phone_numbers)]
            /\ UNCHANGED resp
  /\ UNCHANGED <<embVars, open_conns, outfits, referral_codes, referrals, activated>>

\* lines 569-573: referral_code.phone_id is read from an expired object, which
\* loads the row of the code again, used_count included
ValidateRefresh(c) ==
  /\ req[c].op = "validate" /\ req[c].pc = "refresh"
  /\ \E referral_code \in {rc \in referral_codes : rc.id = req[c].code_id} :
       req' = [req EXCEPT ![c].pc = "commit",
                          ![c].referrer_id = referral_code.phone_id,
                          ![c].used_count = referral_code.used_count]
  /\ UNCHANGED <<embVars, open_conns, acctTables, resp, activated>>

\* line 575: referral_code.used_count += 1 on the loaded object; the flush
\* writes the resulting number
UsedCount(loaded) == loaded + 1

\* lines 575-585: the flush of the commit writes used_count and is_activated
\* by primary key and inserts the referral
ValidateCommit(c) ==
  /\ req[c].op = "validate" /\ req[c].pc = "commit"
  /\ referral_codes' =
       {IF rc.id = req[c].code_id
        THEN [rc EXCEPT !.used_count = UsedCount(req[c].used_count)]
        ELSE rc : rc \in referral_codes}
  /\ phone_numbers' =
       {IF r.id = req[c].user_id THEN [r EXCEPT !.is_activated = TRUE] ELSE r :
          r \in phone_numbers}
  /\ referrals' = referrals \cup
       {[id |-> NextId(referrals), referrer_id |-> req[c].referrer_id,
         referred_id |-> req[c].user_id, code_used |-> req[c].code]}
  /\ resp' = ReferralReply(c, 200, "Account successfully activated",
                           req[c].phone, TRUE)
  /\ activated' = activated \cup {req[c].phone}
  /\ req' = [req EXCEPT ![c] = Idle]
  /\ UNCHANGED <<embVars, open_conns, outfits>>

\* lines 507-528
check_activation(c, phone_number) ==
  /\ req[c] = Idle
  /\ IF phone_number = <<>>
     THEN resp' = [op |-> "check_activation", client |-> c, status |-> 400,
                   message |-> "Phone number required", phone |-> phone_number,
                   is_activated |-> FALSE, needs_referral |-> FALSE]
     ELSE LET found == RowsOfPhone(format_phone_number(phone_number)) IN
            IF found = {}
            THEN resp' = [op |-> "check_activation", client |-> c,
                          status |-> 200, message |-> "new user",
                          phone |-> phone_number,
                          is_activated |-> FALSE, needs_referral |-> TRUE]
            ELSE \E user \in found :
                   resp' = [op |-> "check_activation", client |-> c,
                            status |-> 200, message |-> "user",
                            phone |-> phone_number,
                            is_activated |-> user.is_activated,
                            needs_referral |-> ~user.is_activated]
  /\ UNCHANGED <<embVars, open_conns, acctTables, req, activated>>

----------------------------------------------------------------------------
(* /api/data *)

\* lines 119-127: the text of the query, by the keywords that open its clauses
CombinedQuery ==
  <<"SELECT DISTINCT", "SELECT DISTINCT", "FROM", "LEFT JOIN", "WHERE",
    "ORDER BY", "LIMIT", "OFFSET">>

\* columns of the select list that is followed by FROM (line 121)
CombinedQueryColumns ==
  <<"o.id", "o.image_data", "o.description", "pn.phone_number",
    "pn.instagram_username">>

\* names the rows are unpacked into (line 748)
UnpackedColumns == <<"outfit_id", "image_data", "description">>

\* PostgreSQL accepts a select statement whose text opens with one select
\* list; a second SELECT where FROM is expected is a syntax error
SqlParses(query) ==
  /\ query # <<>>
  /\ query[1] = "SELECT DISTINCT"
  /\ \A i \in 2..Len(query) : query[i] # "SELECT DISTINCT"

\* FROM outfits o LEFT JOIN phone_numbers pn ON o.phone_id = pn.id
\* WHERE (pn.phone_number = %s OR pn.instagram_username = %s)
OutfitsWhere(phone_number, instagram_username) ==
  {o.id : o \in {o \in outfits :
     \E pn \in phone_numbers :
       /\ o.phone_id = pn.id
       /\ \/ (phone_number # <<>> /\ pn.phone_number = phone_number)
          \/ (instagram_username # <<>> /\ pn.instagram_username = instagram_username)}}

RECURSIVE OrderByIdDesc(_)
\* ORDER BY o.id DESC
OrderByIdDesc(ids) ==
  IF ids = {} THEN <<>>
  ELSE LET top == CHOOSE i \in ids : \A j \in ids : j <= i
       IN <<top>> \o OrderByIdDesc(ids \ {top})

\* LIMIT %s OFFSET %s
LimitOffset(rows, lim, off) == SubSeq(rows, off + 1, Min(Len(rows), off + lim))

\* lines 117 and 122-126
CombinedRows(phone_number, instagram_username, page, per_page) ==
  LimitOffset(OrderByIdDesc(OutfitsWhere(phone_number, instagram_username)),
              per_page, (page - 1) * per_page)

\* lines 108-139: None when the statement raises; when connect raises, the
\* finally clause reads the unbound cursor and the error leaves the function
get_data_from_db_combined(phone_number, instagram_username, page, per_page, fault) ==
  IF fault = "connect_error"
  THEN [raised |-> TRUE, is_none |-> FALSE, rows |-> <<>>]
  ELSE IF ~SqlParses(CombinedQuery)
       THEN [raised |-> FALSE, is_none |-> TRUE, rows |-> <<>>]
       ELSE [raised |-> FALSE, is_none |-> FALSE,
             rows |-> CombinedRows(phone_number, instagram_username, page, per_page)]

DataReply(status, phone, name, page, per_page, fault, ids) ==
  [op |-> "api_data", status |-> status, phone |-> phone, name |-> name,
   page |-> page, per_page |-> per_page, fault |-> fault, outfits |-> ids]

\* lines 721-753
api_data(phone_number, instagram_username, page, per_page, fault) ==
  /\ IF phone_number = <<>> /\ instagram_username = <<>>
     THEN resp' = DataReply(400, phone_number, instagram_username, page,
                            per_page, "none", <<>>)
     ELSE LET phone == IF phone_number # <<>>
                       THEN format_phone_number(phone_number) ELSE phone_number
              name == IF instagram_username # <<>>
                      THEN StripAt(instagram_username) ELSE instagram_username
              data == get_data_from_db_combined(phone, name, page, per_page, fault)
              status == IF data.raised \/ data.is_none THEN 500
                        ELSE IF Len(data.rows) = 0 THEN 404
                        ELSE IF Len(CombinedQueryColumns) # Len(UnpackedColumns)
                             THEN 500
                             ELSE 200
          IN resp' = DataReply(status, phone_number, instagram_username, page,
                               per_page, fault,
                               IF status = 200 THEN data.rows ELSE <<>>)
  /\ UNCHANGED <<embVars, open_conns, acctTables, req, activated>>

----------------------------------------------------------------------------
(* Specifications *)

\* the builder, invoked one invocation after the other
Next == generate_and_store_embeddings(1)

Spec == Init /\ [][Next]_vars

\* the request handlers, with the builder behind /initialize
InitApi == InitWith(MaxApiItems)

\* lines 775-780: POST /initialize starts the builder
init_route ==
  /\ Started < MaxApiRuns
  /\ BuilderConnect(1)

NextApi ==
  \/ init_route
  \/ BuilderSetup(1)
  \/ BuilderFetch(1)
  \/ BuilderEmbed(1)
  \/ BuilderStore(1)
  \/ \E q \in Queries : rag_search(q)
  \/ \E i \in ItemIdArgs : api_links(i)
  \/ \E o \in OutfitIdArgs : api_items(o)

SpecApi == InitApi /\ [][NextApi]_vars

\* invocations of the builder that overlap
InitConc == InitWith(MaxConcItems)

NextConc == \E p \in Procs : generate_and_store_embeddings(p)

SpecConc == InitConc /\ [][NextConc]_vars

\* the builder with its steps scheduled: a call that was made returns, a
\* statement that was issued completes
SpecFair == Init /\ [][Next]_vars /\ WF_vars(Next)

\* the embedding tables and the builder at rest, for the account handlers
EmbeddingAtRest ==
  /\ items = <<>>
  /\ has_table = FALSE
  /\ item_embeddings = {}
  /\ pc = [p \in Procs |-> "idle"]
  /\ offset = [p \in Procs |-> 0]
  /\ fetched = [p \in Procs |-> <<>>]
  /\ embeddings = [p \in Procs |-> <<>>]
  /\ in_txn = [p \in Procs |-> FALSE]
  /\ run = [p \in Procs |-> NoRun]
  /\ hist = <<>>
  /\ open_conns = 0
  /\ resp = NoResp

\* phone numbers as requests write them, and Instagram usernames
PhoneA == <<"+", "1", "5", "5">>
PhoneB == <<"+", "1", "6">>
LinkPhones == {<<>>, PhoneA, <<"5", "5">>, <<"6">>, <<"7">>}
LinkNames == {<<>>, <<"a">>, <<"@", "a">>, <<"b">>}

\* /api/instagram/link and /api/instagram/unlink requests that overlap, on
\* two users of whom at most one has a username
InitLink ==
  /\ EmbeddingAtRest
  /\ \E n \in {NullName, <<"a">>, <<"b">>} :
       phone_numbers = {PhoneRow(1, PhoneA, n, TRUE),
                        PhoneRow(2, PhoneB, NullName, TRUE)}
  /\ outfits = {}
  /\ referral_codes = {}
  /\ referrals = {}
  /\ req = [c \in Clients |-> Idle]
  /\ activated = {}

NextLink ==
  \E c \in Clients :
    \/ \E ph \in LinkPhones, n \in LinkNames : link_instagram(c, ph, n)
    \/ LinkFindPhone(c)
    \/ LinkCheckTaken(c)
    \/ LinkUpdate(c)
    \/ \E ph \in LinkPhones : unlink_instagram_route(c, ph)
    \/ UnlinkFindPhone(c)
    \/ UnlinkUpdate(c)

SpecLink == InitLink /\ [][NextLink]_vars

\* referral codes and phone numbers as requests write them
ReferralArgs == {"", "AAA", "BBB", "ZZZ"}
ReferralPhones == {<<>>, PhoneA, <<"5", "-", "5">>}

\* /api/referral/validate and /api/user/check_activation: user 1 owns two
\* unused codes, no referral exists, and the number +155 may be known already
InitReferral ==
  /\ EmbeddingAtRest
  /\ \E known \in SUBSET {PhoneRow(2, PhoneA, NullName, FALSE)} :
       phone_numbers = {PhoneRow(1, PhoneB, NullName, TRUE)} \cup known
  /\ outfits = {}
  /\ referral_codes = {[id |-> 1, phone_id |-> 1, code |-> "AAA", used_count |-> 0],
                       [id |-> 2, phone_id |-> 1, code |-> "BBB", used_count |-> 0]}
  /\ referrals = {}
  /\ req = [c \in Clients |-> Idle]
  /\ activated = {}

NextReferral ==
  \E c \in Clients :
    \/ \E code \in ReferralArgs, ph \in ReferralPhones : validate_referral(c, code, ph)
    \/ ValidateFindUser(c)
    \/ ValidateInsertUser(c)
    \/ ValidateRefresh(c)
    \/ ValidateCommit(c)
    \/ \E ph \in ReferralPhones : check_activation(c, ph)

SpecReferral == InitReferral /\ [][NextReferral]_vars

\* arguments of /api/data
DataPhones == {<<>>, PhoneA, <<"5", "5">>, <<"(", "6", ")">>}
DataNames == {<<>>, <<"a">>, <<"@", "a">>, <<"b">>}
Pages == {1, 2}
PerPages == {1, 2}

\* /api/data on two users, the first known as "a", who own the outfits
InitData ==
  /\ EmbeddingAtRest
  /\ phone_numbers = {PhoneRow(1, PhoneA, <<"a">>, TRUE),
                      PhoneRow(2, PhoneB, NullName, TRUE)}
  /\ \E owner \in [1..MaxOutfits -> {1, 2}] :
       outfits = {[id |-> i, phone_id |-> owner[i]] : i \in 1..MaxOutfits}
  /\ referral_codes = {}
  /\ referrals = {}
  /\ req = [c \in Clients |-> Idle]
  /\ activated = {}

NextData ==
  \E ph \in DataPhones, n \in DataNames, page \in Pages, per_page \in PerPages,
     fault \in {"none", "connect_error"} :
    api_data(ph, n, page, per_page, fault)

SpecData == InitData /\ [][NextData]_vars

----------------------------------------------------------------------------
(* Properties of the builder *)

RecordsOf(rows, i) == {r \in rows : r.item_id = i}

Outcomes(lg) == {lg[k].outcome : k \in 1..Len(lg)}

\* an invocation that returned and in which every embedding call succeeded
Clean(h) == h.exit = "returned" /\ "failed" \notin Outcomes(h.log)

Described == {i \in 1..Len(items) : Truthy(items[i])}
Undescribed == {i \in 1..Len(items) : ~Truthy(items[i])}

\* C1: after the builder ran once with every embedding call succeeding,
\* every item with a non-empty description has exactly one embedding
\* record keyed by its id, for every catalog size.
C1_EveryDescribedItemEmbedded ==
  (Len(hist) >= 1 /\ Clean(hist[1])) =>
    \A i \in Described : Cardinality(RecordsOf(hist[1].after, i)) = 1

\* C2: after the builder ran, no item whose description is null or empty
\* has an embedding record.
C2_NoRecordForUndescribed ==
  \A k \in 1..Len(hist) :
    \A i \in Undescribed : RecordsOf(hist[k].after, i) = {}

\* C6: two invocations in a row without failures on the unchanged catalog
\* leave the records the first one left: same ids, same vectors, one row
\* per id.
C6_RerunLeavesSameRecords ==
  \A k \in 1..(Len(hist) - 1) :
    (Clean(hist[k]) /\ Clean(hist[k + 1])) =>
      /\ hist[k + 1].after = hist[k].after
      /\ Cardinality(EmbeddedIds(hist[k + 1].after)) = Cardinality(hist[k + 1].after)

C6_Witness ==
  /\ Len(hist) = 2
  /\ Clean(hist[1]) /\ Clean(hist[2])
  /\ Cardinality(hist[2].after) >= 2
  /\ "stored" \in Outcomes(hist[2].log)

\* C7: on a re-run, no item that had an embedding record when the re-run
\* began has its description sent to the embedding service again.
C7_EmbeddedItemsNotResent ==
  \A k \in 2..Len(hist) :
    \A j \in 1..Len(hist[k].log) :
      hist[k].log[j].sent \cap EmbeddedIds(hist[k].before) = {}

\* the table a batch of a log found: the table the batch before it left
RowsBefore(lg, k) == IF k = 1 THEN {} ELSE lg[k - 1].rows

FailedBatchHandled(lg, k) ==
  \* rolled back: no record from the attempt, earlier records remain
  /\ lg[k].rows = RowsBefore(lg, k)
  \* the loop goes on at the next offset
  /\ k < Len(lg) => lg[k + 1].offset = lg[k].offset + batch_size

----------------------------------------------------------------------------
(* Properties of the request handlers *)

IsRagSearch == resp.op = "rag_search"

\* C3: a rag_search with a non-empty query over a non-empty table (the
\* embedding call and the database answering) returns status 200 with one
\* item_id, that of a stored record of minimal distance to the query embedding.
C3_NearestItemReturned ==
  (IsRagSearch /\ Truthy(resp.query) /\ resp.fault = "none" /\ resp.rows # {}) =>
    /\ resp.status = 200
    /\ \E r \in resp.rows :
         /\ r.item_id = resp.item_id
         /\ \A s \in resp.rows :
              CosineLeq(Embed(resp.query), r.embedding, s.embedding)

\* a query answered over two records of different distance
C3_Witness ==
  /\ IsRagSearch /\ resp.status = 200 /\ resp.item_id = 1
  /\ resp.query = "warm red sweater"
  /\ \E r, s \in resp.rows :
       ~CosineLeq(Embed(resp.query), s.embedding, r.embedding)

\* C4: an empty or missing item_description is answered with 400, without
\* a call to the embedding service and without a database connection.
C4_EmptyQueryIsClientError ==
  (IsRagSearch /\ ~Truthy(resp.query)) =>
    /\ resp.status = 400
    /\ resp.embed_calls = 0
    /\ resp.connections = 0

C4_Witness ==
  /\ IsRagSearch /\ resp.query = "" /\ resp.status = 400
  /\ item_embeddings # {}

\* C5: with no embedding record in existence, a rag_search with a non-empty
\* query (the embedding call and the database connection succeeding) is
\* answered 404, not 500.
C5_NoRecordsIsNotFound ==
  (IsRagSearch /\ Truthy(resp.query) /\ resp.fault = "none" /\ resp.rows = {}) =>
    resp.status = 404

\* C9: when no operation is in progress, no database connection is open.
C9_ConnectionsReleased ==
  (\A p \in Procs : pc[p] = "idle") => open_conns = 0

----------------------------------------------------------------------------
(* Properties of overlapping invocations *)

\* generate_and_store_embeddings run alone on a catalog
SingleRun(its) == BatchLoop(its, RecreateTable({}), 0)

\* C10: once two invocations of the builder have both returned, with every
\* embedding call succeeding, the table holds the records a single
\* invocation leaves, whatever the interleaving.
C10_ConcurrentRunsEqualSingleRun ==
  (/\ Len(hist) = 2
   /\ \A p \in Procs : pc[p] = "idle"
   /\ Clean(hist[1]) /\ Clean(hist[2])) =>
    item_embeddings = SingleRun(items)

----------------------------------------------------------------------------
(* Further properties of the builder *)

\* C12: every embedding record the builder wrote pairs an item id with the
\* vector the service returned for that item's own description.
C12_RecordHoldsOwnVector ==
  \A k \in 1..Len(hist) :
    \A r \in hist[k].after :
      /\ Truthy(items[r.item_id])
      /\ r.embedding = Embed(items[r.item_id])

BuilderActive(p) == pc[p] # "idle"

\* every iteration of the batch loop advances offset by batch_size, and a
\* batch is fetched only at an offset inside the catalog
LoopVariant ==
  \A p \in Procs :
    pc[p] \in {"fetch", "embed", "store"} =>
      /\ offset[p] = batch_size * Len(run[p].log)
      /\ offset[p] < Len(items) + batch_size
      /\ pc[p] \in {"embed", "store"} => offset[p] < Len(items)

\* C13: the builder terminates for every catalog and every pattern of batch
\* outcomes: the loop counts offset up towards the end of the catalog, and
\* an invocation that has begun ends.
C13_BuilderTerminates ==
  /\ []LoopVariant
  /\ (BuilderActive(1) ~> ~BuilderActive(1))

\* invocations that returned after stored, failed and skipped batches, one
\* of them after more than one batch
C13_Witness ==
  /\ \A n \in 1..Len(hist) : hist[n].exit = "returned"
  /\ {"stored", "failed", "skipped"} \subseteq
       UNION {Outcomes(hist[n].log) : n \in 1..Len(hist)}
  /\ \E n \in 1..Len(hist) : Len(hist[n].log) >= 3
  /\ ~BuilderActive(1)

----------------------------------------------------------------------------
(* Properties of the account handlers *)

\* the page of a user's outfits a request asks for: ids in descending order,
\* per_page of them from position (page - 1) * per_page
RequestedPage(phone, name, page, per_page) ==
  CombinedRows(IF phone # <<>> THEN format_phone_number(phone) ELSE phone,
               IF name # <<>> THEN StripAt(name) ELSE name, page, per_page)

\* C11: a GET /api/data that the database serves, for a phone number or an
\* Instagram username whose requested page holds an outfit, is answered 200
\* with that page: at most per_page outfits, by descending id, from offset
\* (page - 1) * per_page.
C11_OutfitPageReturned ==
  (/\ resp.op = "api_data"
   /\ resp.fault = "none"
   /\ RequestedPage(resp.phone, resp.name, resp.page, resp.per_page) # <<>>)
    => /\ resp.status = 200
       /\ resp.outfits = RequestedPage(resp.phone, resp.name, resp.page, resp.per_page)

\* C14: no Instagram username is linked to two different phone numbers, in
\* every state that link and unlink requests reach in any interleaving.
C14_UsernameLinkedOnce ==
  \A r, t \in phone_numbers :
    (r.instagram_username = t.instagram_username /\ r.instagram_username # NullName)
      => r.phone_number = t.phone_number

\* C15: once /api/referral/validate has answered "Account successfully
\* activated" for a phone number, /api/user/check_activation for the same
\* number, in the same written form, reports is_activated and no need of a
\* referral.
C15_ActivatedIsReported ==
  (resp.op = "check_activation" /\ resp.status = 200 /\ resp.phone \in activated)
    => (resp.is_activated /\ ~resp.needs_referral)

ReferralsOf(code) == {r \in referrals : r.code_used = code}

AnsweredAlreadyActivated ==
  /\ resp'.op = "validate_referral"
  /\ resp'.message = "User already activated"
  /\ resp' # resp

\* C16: each code's used_count is the number of referrals made with it, in
\* every state that /api/referral/validate requests reach in any
\* interleaving, and a request answered "User already activated" changes
\* neither.
C16_UsedCountIsReferralCount ==
  /\ [](\A rc \in referral_codes :
          rc.used_count = Cardinality(ReferralsOf(rc.code)))
  /\ [][AnsweredAlreadyActivated => UNCHANGED <<referral_codes, referrals>>]_vars

====
